---- MODULE Spec2Model ----
(***************************************************************************)
(* A model of json-ns (src/src/lib.rs): the source Context (merge_value,   *)
(* merge_object, expand_name), the TargetContext (add_rule, compact_iri)   *)
(* and the Processor's recursive walker (process_value_inner,              *)
(* process_object_inner).                                                  *)
(*                                                                         *)
(* Strings are sequences of one-character strings, so that starts_with,    *)
(* splitn, slicing and format! are computed on characters.  JSON values    *)
(* are tagged tuples.  A json::Map is a BTreeMap<String, Value> (the       *)
(* serde_json default): a sequence of <<key, value>> pairs with distinct   *)
(* keys in ascending byte order.  The BTreeMap<String, String> tables of a *)
(* Context are functions from keys to strings.                             *)
(***************************************************************************)
EXTENDS Integers, Sequences, FiniteSets, TLC

VARIABLES context, target, input, op, arg, ret, calls

vars == <<context, target, input, op, arg, ret, calls>>

(***************************************************************************)
(* Bounds of the model.                                                    *)
(***************************************************************************)
MaxRules == 2

(***************************************************************************)
(* Strings and their byte order.                                           *)
(***************************************************************************)
ByteOrder == <<":", "@", "T", "U", "a", "b", "c", "d", "e", "f", "g", "h",
               "i", "k", "l", "n", "o", "p", "r", "t", "u", "v", "w", "x",
               "y">>

Ord(c) == CHOOSE i \in 1..Len(ByteOrder) : ByteOrder[i] = c

RECURSIVE StrLess(_, _)
StrLess(a, b) ==
    IF b = <<>> THEN FALSE
    ELSE IF a = <<>> THEN TRUE
    ELSE IF Head(a) = Head(b) THEN StrLess(Tail(a), Tail(b))
    ELSE Ord(Head(a)) < Ord(Head(b))

starts_with(s, p) == Len(p) <= Len(s) /\ SubSeq(s, 1, Len(p)) = p

contains(s, c) == \E i \in 1..Len(s) : s[i] = c

SliceFrom(s, n) == SubSeq(s, n + 1, Len(s))

kContext == <<"@", "c", "o", "n", "t", "e", "x", "t">>
kId == <<"@", "i", "d">>
kType == <<"@", "t", "y", "p", "e">>
kVocab == <<"@", "v", "o", "c", "a", "b">>
kLanguage == <<"@", "l", "a", "n", "g", "u", "a", "g", "e">>
kContainer == <<"@", "c", "o", "n", "t", "a", "i", "n", "e", "r">>

(***************************************************************************)
(* Option<T> and json::Value.                                              *)
(***************************************************************************)
None == <<>>
Some(x) == <<x>>
IsSome(o) == Len(o) = 1
Unwrap(o) == o[1]

Null == <<"null">>
Bool(b) == <<"bool", b>>
Number(n) == <<"num", n>>
String(s) == <<"str", s>>
Array(a) == <<"arr", a>>
Object(m) == <<"obj", m>>

is_null(v) == v[1] = "null"
is_string(v) == v[1] = "str"
is_array(v) == v[1] = "arr"
is_object(v) == v[1] = "obj"

as_str(v) == IF is_string(v) THEN Some(v[2]) ELSE None

(***************************************************************************)
(* json::Map: get and insert.  Insert replaces the value of a key that is  *)
(* present and otherwise puts the pair at its place in key order.          *)
(***************************************************************************)
MapGet(m, key) ==
    IF \E i \in 1..Len(m) : m[i][1] = key
    THEN Some((m[CHOOSE i \in 1..Len(m) : m[i][1] = key])[2])
    ELSE None

MapHas(m, key) == \E i \in 1..Len(m) : m[i][1] = key

MapInsertFirstWins(m, key, value) ==
    IF \E i \in 1..Len(m) : m[i][1] = key
    THEN m
    ELSE LET n == Cardinality({i \in 1..Len(m) : StrLess(m[i][1], key)})
         IN  SubSeq(m, 1, n) \o << <<key, value>> >> \o SubSeq(m, n + 1, Len(m))

MapInsert(m, key, value) ==
    IF \E i \in 1..Len(m) : m[i][1] = key
    THEN [i \in 1..Len(m) |-> IF m[i][1] = key THEN <<key, value>> ELSE m[i]]
    ELSE LET n == Cardinality({i \in 1..Len(m) : StrLess(m[i][1], key)})
         IN  SubSeq(m, 1, n) \o << <<key, value>> >> \o SubSeq(m, n + 1, Len(m))

(***************************************************************************)
(* The tables of a Context.                                                *)
(***************************************************************************)
EmptyTable == [k \in {} |-> <<>>]

TableInsert(t, key, value) ==
    [k \in DOMAIN t \cup {key} |-> IF k = key THEN value ELSE t[k]]

TableRemove(t, key) == [k \in DOMAIN t \ {key} |-> t[k]]

TableGet(t, key) == IF key \in DOMAIN t THEN Some(t[key]) ELSE None

(***************************************************************************)
(* The classification helpers.                                             *)
(***************************************************************************)
is_keyword(str) == starts_with(str, <<"@">>)

is_absolute_iri(str) == contains(str, ":") /\ ~starts_with(str, <<"@">>)

is_curie_prefix(str) ==
    str # <<>> /\ ~contains(str, ":") /\ ~starts_with(str, <<"@">>)

(***************************************************************************)
(* OneOrMany: the values an iteration over a value yields.                 *)
(***************************************************************************)
OneOrMany(value) == IF is_array(value) THEN value[2] ELSE <<value>>

(***************************************************************************)
(* Context and Context::merge_value / merge_object.                        *)
(***************************************************************************)
DefaultContext ==
    [ns |-> None, lang |-> <<>>, prefixes |-> EmptyTable,
     aliases |-> EmptyTable, container |-> EmptyTable]

\* One iteration of the loop of merge_object.
MergeEntry(self, key, value) ==
    IF is_keyword(key) THEN
        IF key = kVocab THEN
            IF IsSome(as_str(value)) /\ is_absolute_iri(value[2])
            THEN [self EXCEPT !.ns = Some(value[2])]
            ELSE IF is_null(value) THEN [self EXCEPT !.ns = None]
            ELSE self
        ELSE IF key = kLanguage THEN
            IF IsSome(as_str(value)) THEN [self EXCEPT !.lang = value[2]]
            ELSE IF is_null(value) THEN [self EXCEPT !.lang = <<>>]
            ELSE self
        ELSE self
    ELSE IF is_string(value) THEN
        IF is_curie_prefix(key) /\ is_absolute_iri(value[2])
        THEN [self EXCEPT !.prefixes = TableInsert(@, key, value[2])]
        ELSE self
    ELSE IF is_object(value) THEN
        LET id == MapGet(value[2], kId)
            alias == IF IsSome(id) /\ is_string(Unwrap(id))
                        /\ ~is_keyword(Unwrap(id)[2])
                     THEN Some(Unwrap(id)[2]) ELSE None
            cm == MapGet(value[2], kContainer)
            cont == IF IsSome(cm) /\ is_string(Unwrap(cm))
                    THEN Some(Unwrap(cm)[2]) ELSE None
            withAlias == IF IsSome(alias)
                         THEN [self EXCEPT !.aliases =
                                   TableInsert(@, key, Unwrap(alias))]
                         ELSE self
        IN  IF IsSome(cont)
            THEN [withAlias EXCEPT !.container =
                      TableInsert(@, key, Unwrap(cont))]
            ELSE withAlias
    ELSE IF is_null(value) THEN
        [self EXCEPT !.prefixes = TableRemove(@, key),
                     !.aliases = TableRemove(@, key),
                     !.container = TableRemove(@, key)]
    ELSE self

RECURSIVE merge_object(_, _)
merge_object(self, object) ==
    IF object = <<>> THEN self
    ELSE merge_object(MergeEntry(self, Head(object)[1], Head(object)[2]),
                      Tail(object))

\* One iteration of the loop of merge_value, with a null ignored.
MergeOneKeepOnNull(self, value) ==
    IF is_null(value) THEN self
    ELSE IF is_object(value) THEN merge_object(self, value[2])
    ELSE self

\* One iteration of the loop of merge_value.
MergeOne(self, value) ==
    IF is_null(value) THEN DefaultContext
    ELSE IF is_object(value) THEN merge_object(self, value[2])
    ELSE self

RECURSIVE MergeMany(_, _)
MergeMany(self, values) ==
    IF values = <<>> THEN self
    ELSE MergeMany(MergeOne(self, Head(values)), Tail(values))

merge_value(self, value) == MergeMany(self, OneOrMany(value))

(***************************************************************************)
(* Context::expand_name.                                                   *)
(***************************************************************************)
\* name.splitn(2, ':'): the parts before and after the first ':'.
RECURSIVE splitn2(_, _)
splitn2(name, pre) ==
    IF name = <<>> THEN <<pre>>
    ELSE IF Head(name) = ":" THEN <<pre, Tail(name)>>
    ELSE splitn2(Tail(name), Append(pre, Head(name)))

\* name.rsplitn(2, ':') read back to front: a split at the last ':'.
RECURSIVE rsplitn2(_, _)
rsplitn2(name, post) ==
    IF name = <<>> THEN <<post>>
    ELSE IF name[Len(name)] = ":" THEN <<SubSeq(name, 1, Len(name) - 1), post>>
    ELSE rsplitn2(SubSeq(name, 1, Len(name) - 1), <<name[Len(name)]>> \o post)

\* A name without ":" is kept as it is when there is no default namespace.
expand_name_bare(self, name) ==
    IF starts_with(name, <<"@">>) THEN None
    ELSE LET parts == splitn2(name, <<>>)
             prefix == parts[1]
         IN  IF Len(parts) = 2 THEN
                 IF prefix \in DOMAIN self.prefixes
                 THEN Some(self.prefixes[prefix] \o parts[2])
                 ELSE Some(name)
             ELSE IF IsSome(self.ns) THEN Some(Unwrap(self.ns) \o name)
             ELSE Some(name)

expand_name_last_colon(self, name) ==
    IF starts_with(name, <<"@">>) THEN None
    ELSE LET parts == rsplitn2(name, <<>>)
             prefix == parts[1]
         IN  IF Len(parts) = 2 THEN
                 IF prefix \in DOMAIN self.prefixes
                 THEN Some(self.prefixes[prefix] \o parts[2])
                 ELSE Some(name)
             ELSE IF IsSome(self.ns) THEN Some(Unwrap(self.ns) \o name)
             ELSE None

expand_name(self, name) ==
    IF starts_with(name, <<"@">>) THEN None
    ELSE LET parts == splitn2(name, <<>>)
             prefix == parts[1]
         IN  IF Len(parts) = 2 THEN
                 IF prefix \in DOMAIN self.prefixes
                 THEN Some(self.prefixes[prefix] \o parts[2])
                 ELSE Some(name)
             ELSE IF IsSome(self.ns) THEN Some(Unwrap(self.ns) \o name)
             ELSE None

(***************************************************************************)
(* TargetContext::compact_iri.  A rule is <<prefix, base>>.                *)
(***************************************************************************)
\* The longest matching base decides, instead of the first.
compact_iri_longest(rules, iri) ==
    LET M == {j \in 1..Len(rules) : starts_with(iri, rules[j][2])}
    IN  IF M = {} THEN iri
        ELSE LET j == CHOOSE k \in M :
                          \A l \in M :
                              \/ Len(rules[l][2]) < Len(rules[k][2])
                              \/ (Len(rules[l][2]) = Len(rules[k][2]) /\ k <= l)
                 suffix == SliceFrom(iri, Len(rules[j][2]))
             IN  IF rules[j][1] = <<>> THEN suffix
                 ELSE rules[j][1] \o <<":">> \o suffix

RECURSIVE compact_iri(_, _)
compact_iri(rules, iri) ==
    IF rules = <<>> THEN iri
    ELSE LET prefix == Head(rules)[1]
             base == Head(rules)[2]
         IN  IF starts_with(iri, base) THEN
                 LET suffix == SliceFrom(iri, Len(base))
                 IN  IF prefix = <<>> THEN suffix
                     ELSE prefix \o <<":">> \o suffix
             ELSE compact_iri(Tail(rules), iri)

(***************************************************************************)
(* The Processor: process_value_inner and process_object_inner.            *)
(***************************************************************************)
\* The local context of an object: the active context extended, in a copy,
\* with the object's own "@context".
RECURSIVE HoistContexts(_, _)
HoistContexts(entries, ctx) ==
    IF entries = <<>> THEN ctx
    ELSE LET value == Head(entries)[2]
             child == IF is_object(value) THEN MapGet(value[2], kContext)
                      ELSE None
         IN  HoistContexts(Tail(entries),
                           IF IsSome(child) THEN merge_value(ctx, Unwrap(child))
                           ELSE ctx)

\* The "@context" of the object's children is merged as well.
LocalContextLeaky(object, ctx) ==
    LET local == MapGet(object, kContext)
        own == IF IsSome(local) THEN merge_value(ctx, Unwrap(local)) ELSE ctx
    IN  HoistContexts(object, own)

LocalContext(object, ctx) ==
    LET local == MapGet(object, kContext)
    IN  IF IsSome(local) THEN merge_value(ctx, Unwrap(local)) ELSE ctx

\* The alias of a chain of aliases is followed a second time.
ResolveAliasTwice(ctx, key) ==
    LET once == IF key \in DOMAIN ctx.aliases THEN ctx.aliases[key] ELSE key
    IN  IF once \in DOMAIN ctx.aliases THEN ctx.aliases[once] ELSE once

\* context.aliases.get(key).map(String::as_str).unwrap_or(key)
ResolveAlias(ctx, key) ==
    IF key \in DOMAIN ctx.aliases THEN ctx.aliases[key] ELSE key

\* The "@type" pipeline: strings that expand, compacted, in order.
RECURSIVE TypeNames(_, _, _)
TypeNames(rules, items, ctx) ==
    IF items = <<>> THEN <<>>
    ELSE LET s == as_str(Head(items))
             iri == IF IsSome(s) THEN expand_name(ctx, Unwrap(s)) ELSE None
         IN  (IF IsSome(iri) THEN <<String(compact_iri(rules, Unwrap(iri)))>>
              ELSE <<>>)
             \o TypeNames(rules, Tail(items), ctx)

\* The value of an internationalised property, without the filter on the
\* entries of an object and without the drop of the other kinds.
LanguageValueUnfiltered(ctx, value) ==
    IF is_string(value) THEN Some(Object(<< <<ctx.lang, value>> >>))
    ELSE Some(value)

\* The value of an internationalised property; None when it is dropped.
LanguageValue(ctx, value) ==
    IF is_string(value) THEN Some(Object(<< <<ctx.lang, value>> >>))
    ELSE IF is_object(value)
    THEN Some(Object(SelectSeq(value[2], LAMBDA e : is_string(e[2]))))
    ELSE None

RECURSIVE process_value_inner(_, _, _)
RECURSIVE process_object_inner(_, _, _)
RECURSIVE ObjectLoop(_, _, _, _)

\* One iteration of the loop over the entries of an object.
ObjectStep(rules, entry, ctx, result) ==
    LET key == entry[1]
        value == entry[2]
    IN  IF starts_with(key, <<"@">>) THEN
            IF key = kId THEN
                IF is_string(value) /\ is_absolute_iri(value[2])
                THEN MapInsert(result, key, String(value[2]))
                ELSE result
            ELSE IF key = kType THEN
                LET names == TypeNames(rules, OneOrMany(value), ctx)
                IN  IF names # <<>> THEN MapInsert(result, key, Array(names))
                    ELSE result
            ELSE result
        ELSE
            LET iri == expand_name(ctx, ResolveAlias(ctx, key))
            IN  IF ~IsSome(iri) THEN result
                ELSE LET resolved == compact_iri(rules, Unwrap(iri))
                     IN  IF TableGet(ctx.container, key) = Some(kLanguage) THEN
                             LET lv == LanguageValue(ctx, value)
                             IN  IF IsSome(lv)
                                 THEN MapInsert(result, resolved, Unwrap(lv))
                                 ELSE result
                         ELSE MapInsert(result, resolved,
                                        process_value_inner(rules, value, ctx))

ObjectLoop(rules, entries, ctx, result) ==
    IF entries = <<>> THEN result
    ELSE ObjectLoop(rules, Tail(entries), ctx,
                    ObjectStep(rules, Head(entries), ctx, result))

process_object_inner(rules, object, ctx) ==
    ObjectLoop(rules, object, LocalContext(object, ctx), <<>>)

process_value_inner(rules, value, ctx) ==
    IF is_array(value) THEN
        Array([i \in 1..Len(value[2]) |->
                   process_value_inner(rules, value[2][i], ctx)])
    ELSE IF is_object(value) THEN
        Object(process_object_inner(rules, value[2], ctx))
    ELSE value

\* Whether the loop hands the value of this entry to process_value_inner.
Recurses(entry, ctx) ==
    /\ ~starts_with(entry[1], <<"@">>)
    /\ IsSome(expand_name(ctx, ResolveAlias(ctx, entry[1])))
    /\ TableGet(ctx.container, entry[1]) # Some(kLanguage)

\* Every invocation of process_object_inner made while a value is processed:
\* its object, the context it is given, the local context it computes and the
\* map it returns.
RECURSIVE Calls(_, _, _)
Calls(rules, value, ctx) ==
    IF is_array(value) THEN
        UNION {Calls(rules, value[2][i], ctx) : i \in 1..Len(value[2])}
    ELSE IF is_object(value) THEN
        LET local == LocalContext(value[2], ctx)
        IN  {[object |-> value[2], context |-> ctx, local |-> local,
              result |-> process_object_inner(rules, value[2], ctx)]}
            \cup UNION {Calls(rules, value[2][i][2], local) :
                            i \in {j \in 1..Len(value[2]) :
                                       Recurses(value[2][j], local)}}
    ELSE {}

(***************************************************************************)
(* The inputs.  FromPairs builds a json::Map from key/value pairs the way  *)
(* the parser does, by inserting them one after the other.                 *)
(***************************************************************************)
RECURSIVE InsertAll(_, _)
InsertAll(m, pairs) ==
    IF pairs = <<>> THEN m
    ELSE InsertAll(MapInsert(m, Head(pairs)[1], Head(pairs)[2]), Tail(pairs))

FromPairs(pairs) == InsertAll(<<>>, pairs)

Obj(pairs) == Object(FromPairs(pairs))

\* The objects made of at most two of the given entries, with or without a
\* leading "@context" entry.
ObjectsOf(ctxs, entries) ==
    {Obj(c \o <<e1, e2>>) : c \in ctxs, e1 \in entries, e2 \in entries}
    \cup {Obj(c) : c \in ctxs}

sW == String(<<"w">>)
sV == String(<<"v">>)

\* Context declarations.
declF == Obj(<< <<<<"f">>, String(<<"x", ":">>)>> >>)
declV == Obj(<< <<kVocab, String(<<"x", ":">>)>> >>)
declA ==
    Obj(<< <<kVocab, String(<<"y", ":">>)>>,
           <<<<"f">>, String(<<"x", ":">>)>>,
           <<<<"g">>, Obj(<< <<kId, String(<<"h">>)>> >>)>>,
           <<<<"h">>, Obj(<< <<kId, String(<<"f", ":", "k">>)>> >>)>> >>)
declL ==
    Obj(<< <<kVocab, String(<<"x", ":">>)>>,
           <<kLanguage, String(<<"e">>)>>,
           <<<<"l">>, Obj(<< <<kContainer, String(kLanguage)>> >>)>>,
           <<<<"n">>, Obj(<< <<kId, String(<<"l">>)>> >>)>> >>)
declM ==
    Obj(<< <<kVocab, String(<<"x", ":">>)>>,
           <<<<"l">>, Obj(<< <<kContainer, String(kLanguage)>>,
                             <<kId, String(<<"f", ":", "l">>)>> >>)>> >>)

declT ==
    Obj(<< <<<<":", "t">>,
             Obj(<< <<kId, String(<<"x", ":", "@", "t", "y", "p", "e">>)>> >>)>> >>)

\* The declarations merged into the context of the processor before a run.
BaselineDecls == {declF, declV, Null, Array(<<declV, Null, declF>>)}

\* The declarations of the specification of the Context alone.
Declarations ==
    {Null, declF, declV, declA, declL,
     String(<<"r", ":">>),
     Number(1),
     Obj(<< <<kVocab, Null>> >>),
     Obj(<< <<kVocab, String(<<"b", "a", "d">>)>> >>),
     Obj(<< <<kVocab, Number(1)>> >>),
     Obj(<< <<kLanguage, Null>>, <<<<"@", "x">>, String(<<"x", ":">>)>> >>),
     Obj(<< <<kLanguage, Number(1)>> >>),
     Obj(<< <<<<"f">>, String(<<"y", ":", "f">>)>>,
            <<<<"f", ":", "g">>, String(<<"x", ":">>)>>,
            <<<<>>, String(<<"x", ":">>)>>,
            <<<<"k">>, String(<<"b", "a", "d">>)>> >>),
     Obj(<< <<<<"f">>, Null>>, <<<<"h">>, Null>>, <<<<"l">>, Number(1)>> >>),
     Obj(<< <<<<"h">>, Obj(<< <<kId, String(kType)>>,
                              <<kContainer, Number(1)>> >>)>> >>),
     Array(<<declV, Null, declF>>),
     Array(<<Null>>),
     Array(<<declA, Null>>),
     Array(<<declF, String(<<"r", ":">>), Null, declL, declV>>),
     Array(<<declF, Array(<<Null>>), declV>>)}

\* Names handed to expand_name.
Names ==
    {<<>>, <<"h">>, <<"f", ":", "h">>, <<"f", ":">>, <<":", "h">>,
     <<"f", ":", "h", ":", "k">>, <<"f", ":", ":">>, <<"x", ":", "h">>,
     <<"g">>, <<"@", "x">>, <<"@", "f", ":", "h">>, kType,
     <<"h", ":", "f", ":", "k">>, <<"k", ":", "f", ":", "h">>}

\* Identifiers handed to compact_iri.
Iris ==
    {<<>>, <<"w">>, <<"x", ":">>, <<"x", ":", "h">>, <<"x", ":", "y">>,
     <<"x", ":", "y", "h">>, <<"y", ":", "h">>, <<"y", "x", ":", "h">>}

\* The rules of the specification of the TargetContext alone.
CompactRules ==
    {<<p, b>> : p \in {<<>>, <<"a">>, <<"b">>},
                b \in {<<>>, <<"x", ":">>, <<"x", ":", "y">>, <<"y", ":">>}}

\* The rules given to the processor before a run.
ProcRules == {<<<<"b">>, <<"x", ":">>>>, <<<<>>, <<"x", ":">>>>,
              <<<<"c">>, <<"y", ":">>>>}

\* Documents.
childH == Obj(<< <<<<"h">>, sW>>, <<<<"f", ":", "h">>, sV>> >>)
childF == Obj(<< <<kContext, declF>>, <<<<"f", ":", "h">>, sW>> >>)
childV == Obj(<< <<kContext, declV>>, <<<<"h">>, sW>> >>)

DocsNames ==
    ObjectsOf({<<>>, << <<kContext, declF>> >>, << <<kContext, declA>> >>},
              { <<<<"f", ":", "h">>, sW>>, <<<<"x", ":", "h">>, Number(1)>>,
                <<<<"h">>, sV>>, <<<<"g">>, childH>>,
                <<<<"y", ":", "h">>, Array(<<childH, sW>>)>> })

langObject ==
    Obj(<< <<<<"e">>, sW>>, <<<<"d">>, Number(1)>>, <<<<"h">>, childH>>,
           <<<<"n">>, sV>> >>)

DocsLanguage ==
    {Obj(<< <<kContext, declL>>, e >>) :
         e \in { <<<<"l">>, sW>>, <<<<"l">>, Number(1)>>, <<<<"l">>, Null>>,
                 <<<<"l">>, Array(<<sW>>)>>, <<<<"l">>, Bool(TRUE)>>,
                 <<<<"l">>, langObject>>, <<<<"n">>, sV>>,
                 <<<<"n">>, langObject>> }}
    \cup {Obj(<< <<kContext, declL>>, <<<<"l">>, v>>, e >>) :
              v \in {sW, Number(1), langObject},
              e \in { <<<<"n">>, sV>>, <<<<"x", ":", "l">>, Number(1)>>,
                      <<<<"h">>, sW>> }}
    \cup {Obj(<< <<kContext, declM>>, <<<<"l">>, v>> >>) :
              v \in {sW, Number(1), langObject}}

typeList ==
    Array(<<String(<<"f", ":", "T">>), Number(1), String(<<"T">>),
            String(<<"@", "x">>), String(<<"f", ":", "U">>)>>)

DocsType ==
    {Obj(c \o << <<kType, t>> >> \o e) :
         c \in {<<>>, << <<kContext, declA>> >>},
         t \in {String(<<"f", ":", "T">>), String(<<"T">>), String(<<"g">>),
                Number(1), Array(<<>>), typeList},
         e \in {<<>>, << <<<<"x", ":", "@", "t", "y", "p", "e">>, sW>> >>,
                << <<kId, String(<<"x", ":", "i">>)>> >>}}
    \cup {Obj(<< <<kContext, declT>>, <<<<":", "t">>, sW>>, <<kType, t>> >>) :
              t \in {String(<<"x", ":", "T">>), Number(1)}}
    \cup {Obj(<< e, <<<<"x", ":", "h">>, sW>> >>) :
              e \in { <<kId, String(<<"x", ":", "i">>)>>,
                      <<kId, String(<<"i">>)>>, <<kId, Number(1)>>,
                      <<kId, String(<<"@", "i", ":">>)>>,
                      <<<<"@", "x">>, sW>> }}

DocsScope ==
    { Obj(<< <<<<"f", ":", "a">>, childF>>, <<<<"f", ":", "h">>, sW>>,
             <<<<"x", ":", "b">>, childH>> >>),
      Obj(<< <<<<"x", ":", "a">>, childV>>, <<<<"h">>, sW>>,
             <<<<"x", ":", "b">>, childH>> >>),
      Obj(<< <<<<"x", ":", "a">>, Array(<<childH, childV, childF>>)>>,
             <<<<"x", ":", "b">>, childH>> >>),
      Obj(<< <<<<"x", ":", "p">>, Obj(<< <<<<"x", ":", "a">>, childV>>,
                                         <<<<"h">>, sW>> >>)>>,
             <<<<"h">>, sV>> >>),
      Obj(<< <<kContext, declF>>, <<<<"f", ":", "a">>, childV>>,
             <<<<"f", ":", "b">>, childV>>, <<<<"h">>, sW>> >>),
      Obj(<< <<kContext, declL>>, <<<<"l">>, childF>>,
             <<<<"f", ":", "h">>, sW>> >>),
      Array(<<childF, childH, childV, childH>>),
      Array(<<childH, Array(<<childV>>), childH>>) }

DocsNull ==
    { Obj(<< <<kContext, Null>>, <<<<"h">>, sW>>, <<<<"f", ":", "h">>, sV>> >>),
      Obj(<< <<kContext, Array(<<declV, Null, declF>>)>>, <<<<"h">>, sW>>,
             <<<<"f", ":", "h">>, sV>> >>),
      Obj(<< <<kContext, Array(<<Null, declV>>)>>, <<<<"h">>, sW>>,
             <<<<"f", ":", "h">>, sV>> >>),
      Obj(<< <<kContext, declV>>,
             <<<<"h">>, Obj(<< <<kContext, Null>>, <<<<"h">>, sW>>,
                               <<<<"f", ":", "h">>, sV>> >>)>> >>),
      sW, Null, Number(1), Array(<<>>), Array(<<sW, Null>>) }

Docs == DocsNames \cup DocsLanguage \cup DocsType \cup DocsScope \cup DocsNull

(***************************************************************************)
(* The state: the processor (its context and the rules of its target), the *)
(* document the caller has parsed, and the last operation with its         *)
(* argument, what it returned and the invocations of process_object_inner  *)
(* it made.                                                                *)
(***************************************************************************)
Init ==
    /\ context = DefaultContext
    /\ target = <<>>
    /\ input = Null
    /\ op = "new"
    /\ arg = None
    /\ ret = None
    /\ calls = {}

AddRule(prefix, base) ==
    /\ Len(target) < MaxRules
    /\ target' = Append(target, <<prefix, base>>)
    /\ op' = "add_rule"
    /\ arg' = <<prefix, base>>
    /\ ret' = None
    /\ calls' = {}
    /\ UNCHANGED <<context, input>>

MergeValue(value) ==
    /\ context' = merge_value(context, value)
    /\ op' = "merge_value"
    /\ arg' = value
    /\ ret' = None
    /\ calls' = {}
    /\ UNCHANGED <<target, input>>

ExpandName(name) ==
    /\ op' = "expand_name"
    /\ arg' = name
    /\ ret' = expand_name(context, name)
    /\ calls' = {}
    /\ UNCHANGED <<context, target, input>>

CompactIri(iri) ==
    /\ op' = "compact_iri"
    /\ arg' = iri
    /\ ret' = compact_iri(target, iri)
    /\ calls' = {}
    /\ UNCHANGED <<context, target, input>>

\* The caller parses a document.
LoadInput(value) ==
    /\ input' = value
    /\ op' = "from_str"
    /\ arg' = None
    /\ ret' = None
    /\ calls' = {}
    /\ UNCHANGED <<context, target>>

\* processor.process_value(&input)
ProcessValue ==
    /\ op' = "process_value"
    /\ arg' = input
    /\ ret' = process_value_inner(target, input, context)
    /\ calls' = Calls(target, input, context)
    /\ UNCHANGED <<context, target, input>>

\* The processor as a whole.
Next ==
    \/ \E r \in ProcRules : AddRule(r[1], r[2])
    \/ \E d \in BaselineDecls : MergeValue(d)
    \/ \E v \in Docs : LoadInput(v)
    \/ ProcessValue

Spec == Init /\ [][Next]_vars

\* The TargetContext alone.
NextTarget ==
    \/ \E r \in CompactRules : AddRule(r[1], r[2])
    \/ \E i \in Iris : CompactIri(i)

SpecTarget == Init /\ [][NextTarget]_vars

\* The Context alone.
NextContext ==
    \/ \E d \in Declarations : MergeValue(d)
    \/ \E n \in Names : ExpandName(n)

SpecContext == Init /\ [][NextContext]_vars

TypeOK ==
    /\ Len(target) <= MaxRules
    /\ op \in {"new", "add_rule", "merge_value", "expand_name", "compact_iri",
               "from_str", "process_value"}

(***************************************************************************)
(* Notions the properties are stated with.                                 *)
(***************************************************************************)
IsPrefixOf(b, i) == Len(b) <= Len(i) /\ \A k \in 1..Len(b) : i[k] = b[k]

Remainder(b, i) == [k \in 1..(Len(i) - Len(b)) |-> i[k + Len(b)]]

Compacted(rule, i) ==
    IF rule[1] = <<>> THEN Remainder(rule[2], i)
    ELSE rule[1] \o <<":">> \o Remainder(rule[2], i)

Matching(rules, i) == {j \in 1..Len(rules) : IsPrefixOf(rules[j][2], i)}

HasColon(s) == \E k \in 1..Len(s) : s[k] = ":"

StartsWithAt(s) == Len(s) > 0 /\ s[1] = "@"

FirstColon(s) == CHOOSE k \in 1..Len(s) : s[k] = ":" /\ \A l \in 1..(k - 1) : s[l] # ":"

(***************************************************************************)
(* C2: compact_iri is decided by the first rule, in the order of add_rule, *)
(* whose base is a prefix of the identifier, even when a later rule has a  *)
(* longer or equal matching base: the remainder after the base when the    *)
(* rule's prefix is empty, else prefix ":" remainder; with no matching     *)
(* rule the identifier is returned unchanged.                              *)
(***************************************************************************)
C2_FirstRuleDecides ==
    op = "compact_iri" =>
        LET M == Matching(target, arg)
        IN  IF M = {} THEN ret = arg
            ELSE LET first == CHOOSE j \in M : \A l \in M : j <= l
                 IN  ret = Compacted(target[first], arg)

C2_Witness ==
    /\ op = "compact_iri"
    /\ Len(target) = 2
    /\ Matching(target, arg) = {1, 2}
    /\ Len(target[2][2]) > Len(target[1][2])
    /\ ret = Compacted(target[1], arg)
    /\ ret # Compacted(target[2], arg)

(***************************************************************************)
(* C3 as stated: for every rule (p, b) of the list and every absolute      *)
(* identifier i that starts with b, compact_iri(i) is p ":" i[len(b)..]    *)
(* when p is not empty and i[len(b)..] when it is.                         *)
(***************************************************************************)
C3_EveryMatchingRule ==
    (op = "compact_iri" /\ HasColon(arg) /\ ~StartsWithAt(arg)) =>
        \A j \in Matching(target, arg) : ret = Compacted(target[j], arg)

(***************************************************************************)
(* C3 amended: for every rule (p, b) of the list and every absolute        *)
(* identifier i that starts with b while the base of no earlier rule of    *)
(* the list is a prefix of i, compact_iri(i) is p ":" i[len(b)..] when p   *)
(* is not empty and i[len(b)..] when it is.                                *)
(***************************************************************************)
C3_FirstMatchingRule ==
    (op = "compact_iri" /\ HasColon(arg) /\ ~StartsWithAt(arg)) =>
        \A j \in Matching(target, arg) :
            (\A l \in 1..(j - 1) : l \notin Matching(target, arg))
                => ret = Compacted(target[j], arg)

C3_Witness ==
    /\ op = "compact_iri"
    /\ HasColon(arg) /\ ~StartsWithAt(arg)
    /\ Len(target) = 2
    /\ Matching(target, arg) = {2}
    /\ target[2][1] # <<>>
    /\ Remainder(target[2][2], arg) # <<>>
    /\ ret = target[2][1] \o <<":">> \o Remainder(target[2][2], arg)

(***************************************************************************)
(* C4: expand_name yields nothing for a name starting with "@"; otherwise  *)
(* the name is split at its first ":" into prefix and suffix (the suffix   *)
(* may contain ":" or be empty): with a suffix and the prefix a key of     *)
(* prefixes the result is prefixes[prefix] followed by the suffix; with a  *)
(* suffix and an unknown prefix it is the name unchanged; without ":" it   *)
(* is the default namespace followed by the name when one is set and       *)
(* nothing when none is.                                                   *)
(***************************************************************************)
C4_ExpandReference ==
    op = "expand_name" =>
        ret = IF StartsWithAt(arg) THEN None
              ELSE IF HasColon(arg) THEN
                  LET k == FirstColon(arg)
                      prefix == SubSeq(arg, 1, k - 1)
                      suffix == SubSeq(arg, k + 1, Len(arg))
                  IN  IF prefix \in DOMAIN context.prefixes
                      THEN Some(context.prefixes[prefix] \o suffix)
                      ELSE Some(arg)
              ELSE IF context.ns # None THEN Some(context.ns[1] \o arg)
              ELSE None

C4_Witness ==
    /\ op = "expand_name"
    /\ arg = <<"f", ":", "h", ":", "k">>
    /\ <<"f">> \in DOMAIN context.prefixes
    /\ ret = Some(context.prefixes[<<"f">>] \o <<"h", ":", "k">>)
    /\ ret # Some(arg)

(***************************************************************************)
(* What one entry of an object node contributes, stated from the rules of  *)
(* the property processing: the output key it writes (None when it writes  *)
(* nothing) and the value it writes there.                                 *)
(***************************************************************************)
AliasOnce(local, key) ==
    IF key \in DOMAIN local.aliases THEN local.aliases[key] ELSE key

IsLanguageMapped(local, key) ==
    key \in DOMAIN local.container /\ local.container[key] = kLanguage

TypeItems(value) == IF value[1] = "arr" THEN value[2] ELSE <<value>>

ExpectedTypes(rules, local, value) ==
    LET good == SelectSeq(TypeItems(value),
                          LAMBDA e : e[1] = "str" /\ expand_name(local, e[2]) # None)
    IN  [k \in 1..Len(good) |->
             String(compact_iri(rules, expand_name(local, good[k][2])[1]))]

WrittenKey(rules, local, entry) ==
    LET key == entry[1]
        value == entry[2]
    IN  IF StartsWithAt(key) THEN
            IF key = kId
            THEN IF value[1] = "str" /\ HasColon(value[2]) /\ ~StartsWithAt(value[2])
                 THEN Some(kId) ELSE None
            ELSE IF key = kType
            THEN IF Len(ExpectedTypes(rules, local, value)) > 0
                 THEN Some(kType) ELSE None
            ELSE None
        ELSE LET iri == expand_name(local, AliasOnce(local, key))
             IN  IF iri = None THEN None
                 ELSE IF IsLanguageMapped(local, key)
                         /\ value[1] \notin {"str", "obj"}
                 THEN None
                 ELSE Some(compact_iri(rules, iri[1]))

WrittenValue(rules, local, entry) ==
    LET key == entry[1]
        value == entry[2]
    IN  IF key = kId THEN value
        ELSE IF key = kType THEN Array(ExpectedTypes(rules, local, value))
        ELSE IF IsLanguageMapped(local, key) THEN
            IF value[1] = "str" THEN Object(<< <<local.lang, value>> >>)
            ELSE Object(SelectSeq(value[2], LAMBDA e : e[2][1] = "str"))
        ELSE process_value_inner(rules, value, local)

\* The entries of the object that write the output key, in iteration order.
Writers(rules, local, object, outkey) ==
    {j \in 1..Len(object) : WrittenKey(rules, local, object[j]) = Some(outkey)}

IsLastWriter(rules, local, object, i) ==
    LET w == WrittenKey(rules, local, object[i])
    IN  /\ w # None
        /\ \A j \in Writers(rules, local, object, w[1]) : j <= i

RemoveAt(seq, i) == SubSeq(seq, 1, i - 1) \o SubSeq(seq, i + 1, Len(seq))

(***************************************************************************)
(* C6: merging a null declaration leaves the empty default context; a      *)
(* sequence [..., null, D1, ..., Dn] merges to what [D1, ..., Dn] merges   *)
(* to from the empty context; an object node whose "@context" is null is   *)
(* processed without any rule of its ancestors or of the baseline context. *)
(***************************************************************************)
EmptyContextValue ==
    [ns |-> <<>>, lang |-> <<>>, prefixes |-> <<>>, aliases |-> <<>>,
     container |-> <<>>]

ResetByNull(decl, merged) ==
    LET items == TypeItems(decl)
    IN  \A i \in 1..Len(items) :
            items[i] = Null =>
                /\ merged = merge_value(EmptyContextValue,
                                        Array(SubSeq(items, i + 1, Len(items))))
                /\ i = Len(items) => merged = EmptyContextValue

HasNull(decl) == \E i \in 1..Len(TypeItems(decl)) : TypeItems(decl)[i] = Null

C6_NullResets ==
    /\ op = "merge_value" => ResetByNull(arg, context)
    /\ \A c \in calls :
           MapGet(c.object, kContext) # None =>
               LET decl == MapGet(c.object, kContext)[1]
               IN  /\ ResetByNull(decl, c.local)
                   /\ HasNull(decl) =>
                          c.result = process_object_inner(target, c.object,
                                                          EmptyContextValue)
                   /\ decl = Null =>
                          c.result = process_object_inner(
                                         target, RemoveAt(c.object,
                                             CHOOSE i \in 1..Len(c.object) :
                                                 c.object[i][1] = kContext),
                                         EmptyContextValue)

C6_Witness ==
    /\ op = "process_value"
    /\ \E c \in calls :
           /\ c.context # EmptyContextValue
           /\ MapGet(c.object, kContext) = Some(Null)
           /\ c.local = EmptyContextValue
           /\ c.result # process_object_inner(
                             target, RemoveAt(c.object,
                                 CHOOSE i \in 1..Len(c.object) :
                                     c.object[i][1] = kContext),
                             c.context)

(***************************************************************************)
(* The non-keyword entries of a node whose value is processed as a value:  *)
(* the container mapping of the literal key is absent or not "@language".  *)
(***************************************************************************)
PlainEntries(c) ==
    {i \in 1..Len(c.object) :
         /\ ~StartsWithAt(c.object[i][1])
         /\ ~IsLanguageMapped(c.local, c.object[i][1])}

exampleInput ==
    Obj(<< <<kContext, Obj(<< <<<<"f">>, String(<<"x", ":">>)>> >>)>>,
           <<<<"f", ":", "h">>, String(<<"w">>)>> >>)

ExampleHolds ==
    (op = "process_value" /\ arg = exampleInput
         /\ <<"f">> \notin DOMAIN context.prefixes) =>
        /\ (target # <<>> /\ target[1] = <<<<"b">>, <<"x", ":">>>>)
               => ret = Obj(<< <<<<"b", ":", "h">>, String(<<"w">>)>> >>)
        /\ target = <<>>
               => ret = Obj(<< <<<<"x", ":", "h">>, String(<<"w">>)>> >>)

(***************************************************************************)
(* C1 as stated: for every object node and every non-keyword key k of it   *)
(* that is not "@language"-mapped, with n the alias of k if the effective  *)
(* context has one (one step only) and k otherwise: if expand_name(n)      *)
(* succeeds, the output object has the key compact_iri(expand_name(n))     *)
(* and its value is the processed input value.                             *)
(***************************************************************************)
C1_KeyHoldsProcessedValue ==
    /\ \A c \in calls : \A i \in PlainEntries(c) :
           LET iri == expand_name(c.local, AliasOnce(c.local, c.object[i][1]))
           IN  iri # None =>
                   MapGet(c.result, compact_iri(target, iri[1]))
                       = Some(process_value_inner(target, c.object[i][2], c.local))
    /\ ExampleHolds

(***************************************************************************)
(* C1 amended: as stated, for every such key that no entry later in the    *)
(* iteration order of the node writes the same output key after: then the  *)
(* output object has the key compact_iri(expand_name(n)) and its value is  *)
(* the processed input value.  The example {"@context": {"foo": B},        *)
(* "foo:hello": v} yields {"bar:hello": v} with first rule ("bar", B) and  *)
(* {B + "hello": v} without rules.                                         *)
(***************************************************************************)
C1_LastKeyHoldsProcessedValue ==
    /\ \A c \in calls : \A i \in PlainEntries(c) :
           LET iri == expand_name(c.local, AliasOnce(c.local, c.object[i][1]))
           IN  (iri # None /\ IsLastWriter(target, c.local, c.object, i)) =>
                   MapGet(c.result, compact_iri(target, iri[1]))
                       = Some(process_value_inner(target, c.object[i][2], c.local))
    /\ ExampleHolds

C1_Witness ==
    /\ op = "process_value"
    /\ target # <<>>
    /\ \E c \in calls : \E i \in PlainEntries(c) :
           /\ c.object[i][1] \in DOMAIN c.local.aliases
           /\ c.local.aliases[c.object[i][1]] \in DOMAIN c.local.aliases
           /\ c.object[i][2][1] = "obj"
           /\ IsLastWriter(target, c.local, c.object, i)
           /\ LET iri == expand_name(c.local, c.local.aliases[c.object[i][1]])
              IN  /\ iri # None
                  /\ compact_iri(target, iri[1]) # iri[1]
                  /\ MapGet(c.result, compact_iri(target, iri[1]))
                         = Some(process_value_inner(target, c.object[i][2], c.local))
                  /\ c.object[i][2] # process_value_inner(target, c.object[i][2], c.local)

(***************************************************************************)
(* C9: a non-keyword property whose resolved name has no ":" while the     *)
(* effective context has no default namespace contributes nothing: the     *)
(* output of the node is the output of the node without that property, so  *)
(* that neither a key nor a part of its value appears and the other        *)
(* properties are processed all the same.                                  *)
(***************************************************************************)
C9_FailedNameContributesNothing ==
    \A c \in calls : \A i \in 1..Len(c.object) :
        (/\ ~StartsWithAt(c.object[i][1])
         /\ ~HasColon(AliasOnce(c.local, c.object[i][1]))
         /\ c.local.ns = None) =>
            /\ c.result = process_object_inner(target, RemoveAt(c.object, i),
                                               c.context)
            /\ WrittenKey(target, c.local, c.object[i]) = None
            /\ \A k \in 1..Len(c.result) :
                   Writers(target, c.local, c.object, c.result[k][1]) \ {i} # {}

C9_Witness ==
    /\ op = "process_value"
    /\ \E c \in calls : \E i \in 1..Len(c.object) :
           /\ ~StartsWithAt(c.object[i][1])
           /\ ~HasColon(AliasOnce(c.local, c.object[i][1]))
           /\ c.local.ns = None
           /\ c.object[i][2][1] \in {"obj", "arr"}
           /\ \E j \in (i + 1)..Len(c.object) :
                  /\ WrittenKey(target, c.local, c.object[j]) # None
                  /\ MapHas(c.result, WrittenKey(target, c.local, c.object[j])[1])
           /\ Len(c.result) = 1

(***************************************************************************)
(* C10: when two distinct input keys of a node produce the same output     *)
(* key, the output object holds exactly one entry for that key and its     *)
(* value is the one built from the input key that comes later in the       *)
(* iteration order of the object.                                          *)
(***************************************************************************)
C10_LastWriteWins ==
    \A c \in calls : \A i \in 1..Len(c.object) :
        LET w == WrittenKey(target, c.local, c.object[i])
        IN  (/\ w # None
             /\ Cardinality(Writers(target, c.local, c.object, w[1])) >= 2
             /\ IsLastWriter(target, c.local, c.object, i)) =>
                /\ Cardinality({k \in 1..Len(c.result) : c.result[k][1] = w[1]}) = 1
                /\ MapGet(c.result, w[1])
                       = Some(WrittenValue(target, c.local, c.object[i]))

C10_Witness ==
    /\ op = "process_value"
    /\ \E c \in calls : \E i, j \in 1..Len(c.object) :
           /\ i < j
           /\ WrittenKey(target, c.local, c.object[i]) # None
           /\ WrittenKey(target, c.local, c.object[i])
                  = WrittenKey(target, c.local, c.object[j])
           /\ WrittenValue(target, c.local, c.object[i])
                  # WrittenValue(target, c.local, c.object[j])
           /\ MapGet(c.result, WrittenKey(target, c.local, c.object[j])[1])
                  = Some(WrittenValue(target, c.local, c.object[j]))

(***************************************************************************)
(* C8: for a non-keyword property whose literal key is "@language"-mapped  *)
(* in the effective context of the node and whose name expands, a string   *)
(* s becomes {defaultLanguage: s} (the empty key when no language is set), *)
(* an object becomes the object of exactly its entries with a string       *)
(* value, unprocessed, and any other kind of value leaves the output       *)
(* without an entry for the property.  A mapping recorded only under the   *)
(* alias target, not under the literal key, has no effect.                 *)
(***************************************************************************)
C8_LanguageContainer ==
    \A c \in calls : \A i \in 1..Len(c.object) :
        LET key == c.object[i][1]
            value == c.object[i][2]
            iri == expand_name(c.local, AliasOnce(c.local, key))
            last == IsLastWriter(target, c.local, c.object, i)
        IN  (~StartsWithAt(key) /\ iri # None) =>
                LET outkey == compact_iri(target, iri[1])
                IN  /\ (IsLanguageMapped(c.local, key) /\ value[1] = "str" /\ last)
                           => MapGet(c.result, outkey)
                                  = Some(Object(<< <<c.local.lang, value>> >>))
                    /\ (IsLanguageMapped(c.local, key) /\ value[1] = "obj" /\ last)
                           => /\ MapGet(c.result, outkey) # None
                              /\ MapGet(c.result, outkey)[1][1] = "obj"
                              /\ LET out == MapGet(c.result, outkey)[1][2]
                                 IN  /\ \A k \in 1..Len(out) :
                                            /\ out[k][2][1] = "str"
                                            /\ MapGet(value[2], out[k][1])
                                                   = Some(out[k][2])
                                     /\ \A k \in 1..Len(value[2]) :
                                            value[2][k][2][1] = "str"
                                                => MapGet(out, value[2][k][1])
                                                       = Some(value[2][k][2])
                    /\ (IsLanguageMapped(c.local, key)
                            /\ value[1] \notin {"str", "obj"})
                           => /\ c.result = process_object_inner(
                                                target, RemoveAt(c.object, i),
                                                c.context)
                              /\ Writers(target, c.local, c.object, outkey) = {}
                                     => ~MapHas(c.result, outkey)
                    /\ (/\ ~IsLanguageMapped(c.local, key)
                        /\ IsLanguageMapped(c.local, AliasOnce(c.local, key))
                        /\ last)
                           => MapGet(c.result, outkey)
                                  = Some(process_value_inner(target, value, c.local))

C8_Witness ==
    /\ op = "process_value"
    /\ \E c \in calls : \E i \in 1..Len(c.object) :
           LET key == c.object[i][1]
               value == c.object[i][2]
               iri == expand_name(c.local, AliasOnce(c.local, key))
           IN  /\ IsLanguageMapped(c.local, key)
               /\ iri # None
               /\ value[1] = "obj"
               /\ \E k \in 1..Len(value[2]) : value[2][k][2][1] = "obj"
               /\ \E k \in 1..Len(value[2]) : value[2][k][2][1] = "str"
               /\ IsLastWriter(target, c.local, c.object, i)
               /\ MapGet(c.result, compact_iri(target, iri[1]))
                      = Some(Object(SelectSeq(value[2], LAMBDA e : e[2][1] = "str")))
               /\ MapGet(c.result, compact_iri(target, iri[1]))
                      # Some(process_value_inner(target, value, c.local))

(***************************************************************************)
(* C7: for an object node with an "@type" entry, the strings of the value  *)
(* (read as a sequence) that expand contribute their compacted expansion,  *)
(* in order; the output "@type" is that array when it is not empty, and    *)
(* the output has no "@type" key when it is empty.                         *)
(***************************************************************************)
C7_TypeIsArrayOrAbsent ==
    \A c \in calls :
        MapGet(c.object, kType) # None =>
            LET names == ExpectedTypes(target, c.local, MapGet(c.object, kType)[1])
            IN  IF Len(names) > 0
                THEN MapGet(c.result, kType) = Some(Array(names))
                ELSE ~MapHas(c.result, kType)

(***************************************************************************)
(* C5: a local context is visible only to its node and the node's          *)
(* descendants.  For every object node N of the document that has an       *)
(* "@context" entry, the output and the output for the document with that  *)
(* entry removed agree everywhere outside the output of N; and processing  *)
(* leaves the context of the processor as it was.                          *)
(***************************************************************************)
EffectiveContext(object, ctx) ==
    IF MapGet(object, kContext) # None
    THEN merge_value(ctx, MapGet(object, kContext)[1])
    ELSE ctx

\* The paths (entry and element indices) to the object nodes with a local
\* context.
RECURSIVE ContextPaths(_)
ContextPaths(value) ==
    IF value[1] = "arr" THEN
        UNION {{<<i>> \o p : p \in ContextPaths(value[2][i])} :
                   i \in 1..Len(value[2])}
    ELSE IF value[1] = "obj" THEN
        (IF MapHas(value[2], kContext) THEN {<<>>} ELSE {})
        \cup UNION {{<<i>> \o p : p \in ContextPaths(value[2][i][2])} :
                        i \in {j \in 1..Len(value[2]) :
                                   ~StartsWithAt(value[2][j][1])}}
    ELSE {}

\* The document without the "@context" entry of the node at the path.
RECURSIVE StripAt(_, _)
StripAt(value, p) ==
    IF p = <<>> THEN Object(SelectSeq(value[2], LAMBDA e : e[1] # kContext))
    ELSE IF value[1] = "arr"
    THEN Array([value[2] EXCEPT ![p[1]] = StripAt(@, Tail(p))])
    ELSE Object([value[2] EXCEPT ![p[1]] = <<@[1], StripAt(@[2], Tail(p))>>])

\* Two outputs of a value agree outside the output of the node at the path.
RECURSIVE AgreeOutside(_, _, _, _, _)
AgreeOutside(outA, outB, value, p, ctx) ==
    IF p = <<>> THEN TRUE
    ELSE IF value[1] = "arr" THEN
        /\ outA[1] = "arr" /\ outB[1] = "arr"
        /\ Len(outA[2]) = Len(value[2]) /\ Len(outB[2]) = Len(value[2])
        /\ \A m \in 1..Len(value[2]) :
               IF m = p[1]
               THEN AgreeOutside(outA[2][m], outB[2][m], value[2][m], Tail(p), ctx)
               ELSE outA[2][m] = outB[2][m]
    ELSE
        LET local == EffectiveContext(value[2], ctx)
            entry == value[2][p[1]]
            w == WrittenKey(target, local, entry)
            mine == /\ w # None
                    /\ IsLastWriter(target, local, value[2], p[1])
                    /\ ~IsLanguageMapped(local, entry[1])
        IN  /\ outA[1] = "obj" /\ outB[1] = "obj"
            /\ \A key \in {outA[2][k][1] : k \in 1..Len(outA[2])}
                          \cup {outB[2][k][1] : k \in 1..Len(outB[2])} :
                   \/ (mine /\ key = w[1])
                   \/ MapGet(outA[2], key) = MapGet(outB[2], key)
            /\ mine =>
                   /\ MapHas(outA[2], w[1]) /\ MapHas(outB[2], w[1])
                   /\ AgreeOutside(MapGet(outA[2], w[1])[1],
                                   MapGet(outB[2], w[1])[1],
                                   entry[2], Tail(p), local)

C5_OutsideUntouched ==
    op = "process_value" =>
        \A p \in ContextPaths(arg) :
            AgreeOutside(ret,
                         process_value_inner(target, StripAt(arg, p), context),
                         arg, p, context)

C5_LocalContextIsScoped ==
    /\ []C5_OutsideUntouched
    /\ [][op' = "process_value" => (context' = context /\ target' = target)]_vars

RECURSIVE NodeAt(_, _)
NodeAt(value, p) ==
    IF p = <<>> THEN value
    ELSE IF value[1] = "arr" THEN NodeAt(value[2][p[1]], Tail(p))
    ELSE NodeAt(value[2][p[1]][2], Tail(p))

\* The local context of a nested node changes the output of the node, and
\* would change the output elsewhere were it visible to the whole document.
C5_Witness ==
    /\ op = "process_value"
    /\ \E p \in ContextPaths(arg) :
           /\ p # <<>>
           /\ ret # process_value_inner(target, StripAt(arg, p), context)
           /\ LET decl == MapGet(NodeAt(arg, p)[2], kContext)[1]
                  leaked == process_value_inner(target, arg,
                                                merge_value(context, decl))
              IN  /\ ret # leaked
                  /\ ~AgreeOutside(leaked, ret, arg, p, context)

(***************************************************************************)
(* C11: every object produced for an object node has no key beginning with *)
(* "@" other than "@id" and "@type"; an "@id" key holds a string that is a *)
(* valid absolute identifier (it contains ":" and does not begin with "@") *)
(* copied from the "@id" of the input node, and an "@type" key holds a     *)
(* non-empty array of strings.                                             *)
(***************************************************************************)
KeywordKeysWellFormed(c) ==
    \A k \in 1..Len(c.result) :
        LET key == c.result[k][1]
            value == c.result[k][2]
        IN  StartsWithAt(key) =>
                /\ key \in {kId, kType}
                /\ key = kId =>
                       /\ value[1] = "str"
                       /\ HasColon(value[2]) /\ ~StartsWithAt(value[2])
                       /\ MapGet(c.object, kId) = Some(value)
                /\ key = kType =>
                       /\ value[1] = "arr"
                       /\ Len(value[2]) > 0
                       /\ \A m \in 1..Len(value[2]) : value[2][m][1] = "str"

C11_KeywordKeysOfOutput == \A c \in calls : KeywordKeysWellFormed(c)

====
